---- MODULE Spec2Model ----
(***************************************************************************)
(* Car-Rental-backend: the booking-intake HTTP service (express + mongoose) *)
(* modelled as a state machine.  One action per synchronous stretch of a   *)
(* handler: an `await` on a store operation ends one action, and the       *)
(* continuation after it is the next one, so other requests and the        *)
(* connection's lifecycle events interleave exactly where the runtime lets *)
(* them.                                                                   *)
(***************************************************************************)
EXTENDS Integers, Sequences, FiniteSets, TLC

(***************************************************************************)
(* Bounds of the model.                                                    *)
(***************************************************************************)
\* Date.now() is modelled by a clock that ticks from 1 up to MaxTime.
MaxTime == 2
\* The model accepts a create request only while the records stored and the
\* saves in flight are fewer than MaxStore.
MaxStore == 2
\* SpecList: the creation times of the listed collection are drawn from
\* 1..MaxListTime (more than the limit of 10, so that the limit applies).
MaxListTime == 11

(***************************************************************************)
(* Program constants.                                                      *)
(***************************************************************************)
\* Math.floor(Math.random() * 1000): 0..999
RandFirst == 1000
\* Math.floor(Math.random() * 10000): 0..9999
RandRetry == 10000
\* MongoDB's duplicate-key error code, tested by the handler
DuplicateKeyCode == 11000
\* Booking.find().limit(10)
ListLimit == 10
\* mongoose.connection.readyState
Disconnected == 0
Connected == 1
Connecting == 2
Disconnecting == 3

(***************************************************************************)
(* JavaScript values.  A text is a sequence of one-character strings, so   *)
(* that trimming and formatting are computed, not assumed.  A value of a   *)
(* request body is tagged with its JavaScript type.                        *)
(***************************************************************************)
Undefined == [t |-> "undefined", v |-> <<>>]
Str(s) == [t |-> "string", v |-> s]
Num(s) == [t |-> "number", v |-> s]

\* `!x` of the handler's validation: undefined and the empty string are falsy
\* (the number drawn below is non-zero, hence truthy).
Falsy(x) == x.t = "undefined" \/ (x.t = "string" /\ x.v = <<>>)

IsSpace(c) == c = " "

RECURSIVE TrimStart(_)
TrimStart(s) ==
    IF s # <<>> /\ IsSpace(Head(s)) THEN TrimStart(Tail(s)) ELSE s

RECURSIVE TrimEnd(_)
TrimEnd(s) ==
    IF s # <<>> /\ IsSpace(s[Len(s)]) THEN TrimEnd(SubSeq(s, 1, Len(s) - 1)) ELSE s

\* String.prototype.trim
Trim(s) == TrimEnd(TrimStart(s))

DigitChar(d) == <<"0", "1", "2", "3", "4", "5", "6", "7", "8", "9">>[d + 1]

\* The decimal text of a non-negative integer, as a template literal prints it.
RECURSIVE Decimal(_)
Decimal(n) ==
    IF n < 10 THEN <<DigitChar(n)>> ELSE Decimal(n \div 10) \o <<DigitChar(n % 10)>>

Digits == {"0", "1", "2", "3", "4", "5", "6", "7", "8", "9"}

(***************************************************************************)
(* Values of a JSON response body, tagged with their JSON type.  A field   *)
(* whose value is undefined is dropped by res.json (JSON.stringify).       *)
(***************************************************************************)
JBool(b) == [t |-> "boolean", v |-> b]
JStr(s) == [t |-> "string", v |-> s]
JNum(n) == [t |-> "number", v |-> n]
JList(s) == [t |-> "array", v |-> s]
JObj(r) == [t |-> "object", v |-> r]
JUndef == [t |-> "undefined", v |-> 0]

\* res.json(b): the fields of b that are not undefined
Json(b) == [k \in {f \in DOMAIN b : b[f].t # "undefined"} |-> b[k]]

(***************************************************************************)
(* Request bodies of POST /api/bookings: the four required fields.         *)
(***************************************************************************)
\* A body with all four fields; its name is padded with spaces.
FullBody == [name |-> Str(<<" ", "A", " ">>), email |-> Str(<<"e">>),
             phone |-> Str(<<"1">>), carModel |-> Str(<<"S">>)]

Bodies ==
    { FullBody,
      [FullBody EXCEPT !.name = Undefined],
      [FullBody EXCEPT !.carModel = Str(<<>>)],
      [FullBody EXCEPT !.phone = Str(<<" ", " ">>)],
      [FullBody EXCEPT !.name = Num(<<"5">>)] }

\* A validation that forgets the last field.
MissingRequiredNoCarModel(body) ==
    Falsy(body.name) \/ Falsy(body.email) \/ Falsy(body.phone)

\* if (!name || !email || !phone || !carModel)
MissingRequired(body) ==
    Falsy(body.name) \/ Falsy(body.email) \/ Falsy(body.phone) \/ Falsy(body.carModel)

\* name.trim(), email.trim(), phone.trim() throw a TypeError on a value that
\* is not a string (carModel is stored as it came).
TrimThrows(body) ==
    body.name.t # "string" \/ body.email.t # "string" \/ body.phone.t # "string"

\* An identifier without its prefix.
BookingIdNoPrefix(ts, r) == Decimal(ts) \o Decimal(r)

\* `CR${Date.now()}${Math.floor(Math.random() * N)}`
BookingIdOf(ts, r) == <<"C", "R">> \o Decimal(ts) \o Decimal(r)

\* The values of Math.floor(Math.random() * n) the model draws: both ends of
\* the range 0..n-1.
RandomBelow(n) == {0, n - 1}

\* bookingData, and the document built from it by `new Booking(bookingData)`:
\* its createdAt (default Date.now) is set at construction.  The document's
\* _id is left out: a stored document is told apart by its place in the
\* collection.
NewBooking(body, bookingId, ts) ==
    [name |-> Trim(body.name.v),
     email |-> Trim(body.email.v),
     phone |-> Trim(body.phone.v),
     carModel |-> body.carModel.v,
     bookingId |-> bookingId,
     status |-> "confirmed",
     createdAt |-> ts]

(***************************************************************************)
(* Errors: their name, their code (undefined unless the store gave one)    *)
(* and their message.                                                      *)
(***************************************************************************)
DuplicateKeyError ==
    [name |-> "MongoServerError", code |-> JNum(DuplicateKeyCode),
     message |-> "E11000 duplicate key error"]
ValidationError ==
    [name |-> "ValidationError", code |-> JUndef,
     message |-> "Booking validation failed"]
TypeError ==
    [name |-> "TypeError", code |-> JUndef, message |-> "trim is not a function"]
\* Any other failure of save(): a buffering timeout, a network error.
SaveError ==
    [name |-> "MongooseError", code |-> JUndef, message |-> "buffering timed out"]
\* Any failure of find(); its message varies.
FindErrors ==
    { [name |-> "MongooseError", code |-> JUndef, message |-> m] :
        m \in {"buffering timed out", "connection closed"} }
\* express.json() rejecting a malformed body
ParseErrors ==
    { [name |-> "SyntaxError", code |-> JUndef, message |-> m] :
        m \in {"Unexpected token", "Unexpected end of JSON input"} }

IsDuplicateKey(e) == e.code.t = "number" /\ e.code.v = DuplicateKeyCode

\* A handler that retries whatever the failure was.
RetriesAlways(e) == TRUE

\* if (dbError.code === 11000) { retry } else { throw dbError }
Retries(e) == IsDuplicateKey(e)

\* The catch block's status: ValidationError 400, duplicate key 409, else 500
ErrorStatus(e) ==
    IF e.name = "ValidationError" THEN 400
    ELSE IF IsDuplicateKey(e) THEN 409
    ELSE 500

ErrorMessage(e) ==
    IF e.name = "ValidationError" THEN "Invalid booking data provided."
    ELSE IF IsDuplicateKey(e) THEN "Duplicate booking detected. Please try again."
    ELSE "An unexpected error occurred. Please try again."

\* process.env.NODE_ENV === 'development' ? error.message : undefined
DevOnly(env, e) == IF env = "development" THEN JStr(e.message) ELSE JUndef

StateName(rs) == <<"disconnected", "connected", "connecting", "disconnecting">>[rs + 1]

(***************************************************************************)
(* The collection and its queries.                                         *)
(***************************************************************************)
\* A collection without the unique index (the schema of model/Booking.js).
NoUniqueIndex(coll, doc) == FALSE

\* bookingId: { type: String, unique: true }: the index refuses a document
\* whose bookingId a stored document already has.
ViolatesUnique(coll, doc) ==
    \E i \in 1..Len(coll) : coll[i].bookingId = doc.bookingId

Take(s, n) == SubSeq(s, 1, IF Len(s) < n THEN Len(s) ELSE n)

Without(s, i) == SubSeq(s, 1, i - 1) \o SubSeq(s, i + 1, Len(s))

\* The orders in which sort({ createdAt: -1 }) may return the documents:
\* newest first, documents of equal createdAt in any order.
RECURSIVE SortedNewestFirst(_)
SortedNewestFirst(coll) ==
    IF coll = <<>> THEN {<<>>}
    ELSE UNION { { <<coll[i]>> \o rest : rest \in SortedNewestFirst(Without(coll, i)) } :
                   i \in { j \in 1..Len(coll) :
                             \A k \in 1..Len(coll) : coll[k].createdAt <= coll[j].createdAt } }

\* A query that cuts the collection to the limit before it sorts.
FindLimitThenSort(coll) == SortedNewestFirst(Take(coll, ListLimit))

\* Booking.find().limit(10).sort({ createdAt: -1 }): the store sorts, then
\* limits, whatever the order in which the query was built.
FindLatest(coll) == { Take(s, ListLimit) : s \in SortedNewestFirst(coll) }

\* bookings.map(b => ({ id, bookingId, name, carModel, status, createdAt }))
Projection(docs) ==
    [i \in 1..Len(docs) |->
        [bookingId |-> docs[i].bookingId, name |-> docs[i].name,
         carModel |-> docs[i].carModel, status |-> docs[i].status,
         createdAt |-> docs[i].createdAt]]

(***************************************************************************)
(* Response bodies, as the handlers build them.                            *)
(***************************************************************************)
RootBody(rs) ==
    Json([message |-> JStr("Car Rental Backend API"),
          status |-> JStr("running"),
          timestamp |-> JStr("ISO-8601"),
          database |-> JStr(IF rs = Connected THEN "connected" ELSE "disconnected"),
          version |-> JStr("1.0.0")])

DbStatusDownBody(rs) ==
    Json([success |-> JBool(FALSE),
          message |-> JStr("Database is " \o StateName(rs)),
          state |-> JStr(StateName(rs))])

DbStatusUpBody(rs, count) ==
    Json([success |-> JBool(TRUE),
          message |-> JStr("Database is connected and responsive"),
          state |-> JStr(StateName(rs)),
          bookingCount |-> JNum(count),
          database |-> JStr("car_rental")])

UnavailableBody ==
    Json([success |-> JBool(FALSE),
          message |-> JStr("Database not available. Please try again later."),
          error |-> JStr("Database disconnected")])

MissingFieldsBody ==
    Json([success |-> JBool(FALSE),
          message |-> JStr("Please provide all required fields: name, email, phone, car model")])

CreatedBody(saved) ==
    Json([success |-> JBool(TRUE),
          message |-> JStr("Booking confirmed successfully!"),
          bookingId |-> JStr(saved.bookingId),
          booking |-> JObj([name |-> saved.name, carModel |-> saved.carModel]),
          timestamp |-> JStr("ISO-8601")])

CreateErrorBody(env, e) ==
    Json([success |-> JBool(FALSE),
          message |-> JStr(ErrorMessage(e)),
          error |-> DevOnly(env, e),
          code |-> e.code])

ListBody(docs) ==
    Json([success |-> JBool(TRUE),
          count |-> JNum(Len(docs)),
          bookings |-> JList(Projection(docs))])

ListErrorBody(e) ==
    Json([success |-> JBool(FALSE),
          message |-> JStr("Failed to fetch bookings"),
          error |-> JStr(e.message)])

NotFoundBody(url) ==
    Json([success |-> JBool(FALSE),
          message |-> JStr("Route " \o url \o " not found")])

ErrorHandlerBody(env, e) ==
    Json([success |-> JBool(FALSE),
          message |-> JStr("Internal server error"),
          error |-> DevOnly(env, e)])

(***************************************************************************)
(* State.                                                                  *)
(***************************************************************************)
VARIABLES
    readyState,   \* mongoose.connection.readyState
    everUp,       \* the initial mongoose.connect() has succeeded
    listening,    \* the HTTP server accepts requests (until SIGTERM)
    nodeEnv,      \* process.env.NODE_ENV
    now,          \* Date.now()
    store,        \* the bookings collection, in insertion order
    creates,      \* the POST /api/bookings requests awaiting their save()
    listReq,      \* the GET /api/bookings request awaiting its find()
    statusReq,    \* the GET /api/db-status request awaiting its countDocuments()
    resp          \* the response the step just taken sent (NoResponse if none)

vars == <<readyState, everUp, listening, nodeEnv, now, store, creates, listReq,
          statusReq, resp>>

NoError == [name |-> "none", code |-> JUndef, message |-> ""]

IdleQuery == [pc |-> "idle", rsAtStart |-> Connected]

\* A response and the request it answers: the endpoint, for a create request
\* its body and its insert attempts, the connection state the handler
\* started in, and the error the response reports (if any).
Response(endpoint, status, body, reqBody, rs, attempts, cause) ==
    [endpoint |-> endpoint, status |-> status, body |-> body,
     reqBody |-> reqBody, rsAtStart |-> rs, attempts |-> attempts, cause |-> cause]

Plain(endpoint, status, body, rs, cause) ==
    Response(endpoint, status, body, FullBody, rs, <<>>, cause)

NoResponse ==
    Plain("none", 0, Json([success |-> JBool(TRUE), message |-> JStr("")]),
          Connected, NoError)

\* Two requests in flight may be equal in all they hold (the same body, the
\* same identifier generated in the same millisecond): `req` tells them
\* apart, and is the least number that does.
InFlight(others, cr) ==
    LET n == CHOOSE k \in 1..MaxStore :
                 /\ [cr EXCEPT !.req = k] \notin others
                 /\ \A j \in 1..(k - 1) : [cr EXCEPT !.req = j] \in others
    IN  others \cup {[cr EXCEPT !.req = n]}

Init ==
    /\ readyState = Connecting
    /\ everUp = FALSE
    /\ listening = TRUE
    /\ nodeEnv \in {"development", "production"}
    /\ now = 1
    /\ store = <<>>
    /\ creates = {}
    /\ listReq = IdleQuery
    /\ statusReq = IdleQuery
    /\ resp = NoResponse

(***************************************************************************)
(* The connection's lifecycle, the clock and the process.                  *)
(***************************************************************************)
\* mongoose.connect(...).then(...)
ConnectSucceeds ==
    /\ readyState = Connecting
    /\ readyState' = Connected
    /\ everUp' = TRUE
    /\ resp' = NoResponse
    /\ UNCHANGED <<listening, nodeEnv, now, store, creates, listReq, statusReq>>

\* mongoose.connect(...).catch(...): the initial connection is not retried
ConnectFails ==
    /\ readyState = Connecting
    /\ readyState' = Disconnected
    /\ resp' = NoResponse
    /\ UNCHANGED <<everUp, listening, nodeEnv, now, store, creates, listReq, statusReq>>

\* mongoose.connection.on('disconnected')
ConnectionLost ==
    /\ readyState = Connected
    /\ readyState' = Disconnected
    /\ resp' = NoResponse
    /\ UNCHANGED <<everUp, listening, nodeEnv, now, store, creates, listReq, statusReq>>

\* mongoose.connection.on('reconnected')
Reconnected ==
    /\ readyState = Disconnected
    /\ everUp
    /\ listening
    /\ readyState' = Connected
    /\ resp' = NoResponse
    /\ UNCHANGED <<everUp, listening, nodeEnv, now, store, creates, listReq, statusReq>>

\* The millisecond clock advances.
Tick ==
    /\ now < MaxTime
    /\ now' = now + 1
    /\ resp' = NoResponse
    /\ UNCHANGED <<readyState, everUp, listening, nodeEnv, store, creates, listReq,
                   statusReq>>

NoRequestInFlight ==
    /\ creates = {}
    /\ listReq.pc = "idle"
    /\ statusReq.pc = "idle"

\* SIGTERM: server.close(cb) stops accepting; cb runs once the requests in
\* flight have ended and calls mongoose.connection.close.
Sigterm ==
    /\ listening
    /\ NoRequestInFlight
    /\ listening' = FALSE
    /\ readyState' = IF readyState = Connected THEN Disconnecting ELSE Disconnected
    /\ resp' = NoResponse
    /\ UNCHANGED <<everUp, nodeEnv, now, store, creates, listReq, statusReq>>

\* mongoose.connection.close's callback; the process exits.
ConnectionClosed ==
    /\ readyState = Disconnecting
    /\ readyState' = Disconnected
    /\ resp' = NoResponse
    /\ UNCHANGED <<everUp, listening, nodeEnv, now, store, creates, listReq, statusReq>>

(***************************************************************************)
(* Handlers that touch no store operation.                                 *)
(***************************************************************************)
\* app.get("/")
GetRoot ==
    /\ listening
    /\ resp' = Plain("GET /", 200, RootBody(readyState), readyState, NoError)
    /\ UNCHANGED <<readyState, everUp, listening, nodeEnv, now, store, creates, listReq,
                   statusReq>>

\* app.use((req, res) => res.status(404)...)
NotFound ==
    /\ listening
    /\ resp' = Plain("404", 404, NotFoundBody("/api/unknown-path"), readyState, NoError)
    /\ UNCHANGED <<readyState, everUp, listening, nodeEnv, now, store, creates, listReq,
                   statusReq>>

\* app.use((err, req, res, next) => ...): reached when a middleware fails,
\* as express.json() does on a malformed body
ErrorHandler ==
    /\ listening
    /\ \E e \in ParseErrors :
          resp' = Plain("error handler", 500, ErrorHandlerBody(nodeEnv, e), readyState, e)
    /\ UNCHANGED <<readyState, everUp, listening, nodeEnv, now, store, creates, listReq,
                   statusReq>>

(***************************************************************************)
(* POST /api/bookings.                                                     *)
(***************************************************************************)
CreateEndpoint == "POST /api/bookings"

\* The handler up to its first await: the readyState check, the validation,
\* the identifier, bookingData, new Booking(bookingData) and the call of save().
CreateRequest ==
    /\ listening
    /\ \E body \in Bodies :
         IF readyState # Connected THEN
            /\ resp' = Response(CreateEndpoint, 503, UnavailableBody, body,
                                readyState, <<>>, NoError)
            /\ UNCHANGED creates
         ELSE IF MissingRequired(body) THEN
            /\ resp' = Response(CreateEndpoint, 400, MissingFieldsBody, body,
                                readyState, <<>>, NoError)
            /\ UNCHANGED creates
         ELSE IF TrimThrows(body) THEN
            /\ resp' = Response(CreateEndpoint, ErrorStatus(TypeError),
                                CreateErrorBody(nodeEnv, TypeError), body,
                                readyState, <<>>, TypeError)
            /\ UNCHANGED creates
         ELSE
            /\ Len(store) + Cardinality(creates) < MaxStore
            /\ \E r \in RandomBelow(RandFirst) :
                 creates' = InFlight(creates,
                     [req |-> 1, pc |-> "saving", body |-> body,
                      doc |-> NewBooking(body, BookingIdOf(now, r), now),
                      attempts |-> <<>>])
            /\ resp' = NoResponse
    /\ UNCHANGED <<readyState, everUp, listening, nodeEnv, now, store, listReq, statusReq>>

\* What the awaited save() ends with.  The insert reaches the store only
\* over an established connection, and is then decided by the unique index;
\* otherwise save() rejects: with a ValidationError when the document does
\* not pass the schema's casts, or with any other failure (a buffering
\* timeout, a network error).
SaveOutcomes(doc) ==
    (IF readyState = Connected
        THEN {IF ViolatesUnique(store, doc) THEN DuplicateKeyError ELSE NoError}
        ELSE {})
    \cup {ValidationError, SaveError}

\* The continuation of `await newBooking.save()` and of `await
\* retryBooking.save()`: the 201 response, the single retry, or the catch block.
SaveSettles(cr) ==
    /\ cr \in creates
    /\ \E e \in SaveOutcomes(cr.doc) :
         LET tried == Append(cr.attempts, [bookingId |-> cr.doc.bookingId, error |-> e])
         IN  IF e = NoError THEN
                /\ store' = Append(store, cr.doc)
                /\ resp' = Response(CreateEndpoint, 201, CreatedBody(cr.doc), cr.body,
                                    Connected, tried, NoError)
                /\ creates' = creates \ {cr}
             ELSE IF cr.pc = "saving" /\ Retries(e) THEN
                /\ \E r \in RandomBelow(RandRetry) :
                     creates' = InFlight(creates \ {cr},
                         [cr EXCEPT !.pc = "retrying",
                                    !.doc = NewBooking(cr.body, BookingIdOf(now, r), now),
                                    !.attempts = tried])
                /\ resp' = NoResponse
                /\ UNCHANGED store
             ELSE
                /\ resp' = Response(CreateEndpoint, ErrorStatus(e),
                                    CreateErrorBody(nodeEnv, e), cr.body,
                                    Connected, tried, e)
                /\ creates' = creates \ {cr}
                /\ UNCHANGED store
    /\ UNCHANGED <<readyState, everUp, listening, nodeEnv, now, listReq, statusReq>>

(***************************************************************************)
(* GET /api/bookings.                                                      *)
(***************************************************************************)
ListEndpoint == "GET /api/bookings"

\* The handler up to its await: the query is built and issued at once.
ListRequest ==
    /\ listening
    /\ listReq.pc = "idle"
    /\ listReq' = [pc |-> "finding", rsAtStart |-> readyState]
    /\ resp' = NoResponse
    /\ UNCHANGED <<readyState, everUp, listening, nodeEnv, now, store, creates, statusReq>>

\* The continuation of the awaited find(): the query runs once the
\* connection is established; otherwise, or on any failure, it rejects.
ListSettles ==
    /\ listReq.pc = "finding"
    /\ \/ /\ readyState = Connected
          /\ \E docs \in FindLatest(store) :
                resp' = Plain(ListEndpoint, 200, ListBody(docs), listReq.rsAtStart, NoError)
       \/ \E e \in FindErrors :
             resp' = Plain(ListEndpoint, 500, ListErrorBody(e), listReq.rsAtStart, e)
    /\ listReq' = IdleQuery
    /\ UNCHANGED <<readyState, everUp, listening, nodeEnv, now, store, creates, statusReq>>

(***************************************************************************)
(* GET /api/db-status.                                                     *)
(***************************************************************************)
StatusEndpoint == "GET /api/db-status"

StatusRequest ==
    /\ listening
    /\ statusReq.pc = "idle"
    /\ IF readyState # Connected THEN
          /\ resp' = Plain(StatusEndpoint, 200, DbStatusDownBody(readyState), readyState,
                           NoError)
          /\ UNCHANGED statusReq
       ELSE
          /\ statusReq' = [pc |-> "counting", rsAtStart |-> readyState]
          /\ resp' = NoResponse
    /\ UNCHANGED <<readyState, everUp, listening, nodeEnv, now, store, creates, listReq>>

\* The continuation of `await Booking.countDocuments().catch(() => -1)`
CountSettles ==
    /\ statusReq.pc = "counting"
    /\ \E count \in (IF readyState = Connected THEN {Len(store)} ELSE {}) \cup {-1} :
          resp' = Plain(StatusEndpoint, 200, DbStatusUpBody(statusReq.rsAtStart, count),
                        statusReq.rsAtStart, NoError)
    /\ statusReq' = IdleQuery
    /\ UNCHANGED <<readyState, everUp, listening, nodeEnv, now, store, creates, listReq>>

(***************************************************************************)
(* The service.                                                            *)
(***************************************************************************)
Next ==
    \/ ConnectSucceeds
    \/ ConnectFails
    \/ ConnectionLost
    \/ Reconnected
    \/ Tick
    \/ Sigterm
    \/ ConnectionClosed
    \/ GetRoot
    \/ NotFound
    \/ ErrorHandler
    \/ CreateRequest
    \/ \E cr \in creates : SaveSettles(cr)
    \/ ListRequest
    \/ ListSettles
    \/ StatusRequest
    \/ CountSettles

Spec == Init /\ [][Next]_vars

\* The create path on its own: the connection, the clock, the process and
\* POST /api/bookings.  The other handlers write none of the variables that
\* this path reads.
NextCreate ==
    \/ ConnectSucceeds
    \/ ConnectFails
    \/ ConnectionLost
    \/ Reconnected
    \/ Tick
    \/ Sigterm
    \/ ConnectionClosed
    \/ CreateRequest
    \/ \E cr \in creates : SaveSettles(cr)

SpecCreate == Init /\ [][NextCreate]_vars

(***************************************************************************)
(* The listing on its own: GET /api/bookings over a collection of up to    *)
(* MaxListTime bookings created at distinct times, stored oldest first or  *)
(* newest first.                                                           *)
(***************************************************************************)
RECURSIVE Ascending(_)
Ascending(S) ==
    IF S = {} THEN <<>>
    ELSE LET m == CHOOSE x \in S : \A y \in S : x <= y
         IN  <<m>> \o Ascending(S \ {m})

Reverse(s) == [i \in 1..Len(s) |-> s[Len(s) + 1 - i]]

DocsAt(times) ==
    [i \in 1..Len(times) |-> NewBooking(FullBody, BookingIdOf(times[i], 0), times[i])]

ListStores ==
    { DocsAt(Ascending(S)) : S \in SUBSET (1..MaxListTime) }
    \cup { DocsAt(Reverse(Ascending(S))) : S \in SUBSET (1..MaxListTime) }

InitList ==
    /\ readyState = Connected
    /\ everUp = TRUE
    /\ listening = TRUE
    /\ nodeEnv = "production"
    /\ now = MaxListTime
    /\ store \in ListStores
    /\ creates = {}
    /\ listReq = IdleQuery
    /\ statusReq = IdleQuery
    /\ resp = NoResponse

NextList == ListRequest \/ ListSettles

SpecList == InitList /\ [][NextList]_vars

(***************************************************************************)
(* Vocabulary of the properties.                                           *)
(***************************************************************************)
IsCreateResponse(r) == r.endpoint = CreateEndpoint

\* A required field that is absent, or the empty string.
Absent(x) == x.t = "undefined" \/ x = Str(<<>>)

SomeFieldAbsent(b) ==
    Absent(b.name) \/ Absent(b.email) \/ Absent(b.phone) \/ Absent(b.carModel)

\* A required field that is absent, or empty once its surrounding
\* whitespace is removed.
Blank(x) == x.t = "undefined" \/ (x.t = "string" /\ \A i \in 1..Len(x.v) : x.v[i] = " ")

SomeFieldBlank(b) ==
    Blank(b.name) \/ Blank(b.email) \/ Blank(b.phone) \/ Blank(b.carModel)

\* 'CR' followed only by digits (at least one).
IsCRDigits(s) ==
    /\ Len(s) > 2
    /\ s[1] = "C"
    /\ s[2] = "R"
    /\ \A i \in 3..Len(s) : s[i] \in Digits

Last(s) == s[Len(s)]

UniqueBookingIds(coll) ==
    \A i, j \in 1..Len(coll) : i # j => coll[i].bookingId # coll[j].bookingId

OnlyDuplicateKeyFailures(attempts) ==
    \A i \in 1..Len(attempts) :
        attempts[i].error = NoError \/ attempts[i].error = DuplicateKeyError

(***************************************************************************)
(* Properties.                                                             *)
(***************************************************************************)

\* C1: a create request handled while the store is connected, in which one
\* of name, email, phone, carModel is absent or empty, is answered 400, and
\* the step that answers it attempts no insert: the collection and the
\* saves in flight are what they were.
C1_MissingFieldRejected ==
    [][ (/\ IsCreateResponse(resp')
         /\ resp'.rsAtStart = Connected
         /\ SomeFieldAbsent(resp'.reqBody))
        => (/\ resp'.status = 400
            /\ resp'.attempts = <<>>
            /\ store' = store
            /\ creates' = creates) ]_vars

\* C1 (witness): a 400 has just answered a create request with a missing
\* field, received over an established connection.
C1_Witness ==
    /\ IsCreateResponse(resp)
    /\ resp.rsAtStart = Connected
    /\ SomeFieldAbsent(resp.reqBody)
    /\ resp.status = 400

\* C2 (as claimed): every create request with all four fields present is
\* answered 201, with a bookingId 'CR' + digits that a stored record has.
C2_WellFormedAlwaysCreated ==
    (IsCreateResponse(resp) /\ ~SomeFieldAbsent(resp.reqBody))
    => (/\ resp.status = 201
        /\ IsCRDigits(resp.body.bookingId.v)
        /\ \E i \in 1..Len(store) : store[i].bookingId = resp.body.bookingId.v)

\* C2 (amended): a create request is answered 201 exactly when its insert,
\* the first or the retried one, succeeded; the 201 then returns a
\* bookingId that is 'CR' followed only by digits, and at that moment the
\* collection holds a record with that bookingId (the one the response
\* describes).
C2_CreatedWhenInsertSucceeds ==
    IsCreateResponse(resp)
    => (/\ resp.status = 201
           <=> (resp.attempts # <<>> /\ Last(resp.attempts).error = NoError)
        /\ resp.status = 201
           => (/\ ~SomeFieldAbsent(resp.reqBody)
               /\ IsCRDigits(resp.body.bookingId.v)
               /\ \E i \in 1..Len(store) :
                     /\ store[i].bookingId = resp.body.bookingId.v
                     /\ store[i].name = resp.body.booking.v.name
                     /\ store[i].carModel = resp.body.booking.v.carModel))

\* C2 (witness): a 201 has just answered a create request with all four
\* fields present.
C2_Witness ==
    /\ IsCreateResponse(resp)
    /\ ~SomeFieldAbsent(resp.reqBody)
    /\ resp.status = 201

\* C3: a create request received while the connection is not 'connected' is
\* answered 503 without an insert attempt, and a list request received
\* while it is not 'connected' is answered 500.
C3_DownMeansUnavailable ==
    /\ (IsCreateResponse(resp) /\ resp.rsAtStart # Connected)
       => (resp.status = 503 /\ resp.attempts = <<>>)
    /\ (resp.endpoint = ListEndpoint /\ resp.rsAtStart # Connected)
       => resp.status = 500

DistinctTimes(coll) ==
    \A i, j \in 1..Len(coll) : i # j => coll[i].createdAt # coll[j].createdAt

Min(a, b) == IF a < b THEN a ELSE b

\* C5: a successful listing of a collection of N records created at
\* distinct times returns exactly min(N, 10) of them, newest first, and they
\* are the newest: every record left out is older than every record returned.
C5_LatestTenNewestFirst ==
    (resp.endpoint = ListEndpoint /\ resp.status = 200 /\ DistinctTimes(store))
    => LET out == resp.body.bookings.v
       IN  /\ Len(out) = Min(Len(store), 10)
           /\ resp.body.count.v = Len(out)
           /\ \A i \in 1..Len(out) - 1 : out[i].createdAt > out[i + 1].createdAt
           /\ \A i \in 1..Len(out) : \E k \in 1..Len(store) :
                 /\ store[k].createdAt = out[i].createdAt
                 /\ store[k].bookingId = out[i].bookingId
           /\ \A k \in 1..Len(store) :
                 \/ \E i \in 1..Len(out) : out[i].createdAt = store[k].createdAt
                 \/ \A i \in 1..Len(out) : store[k].createdAt < out[i].createdAt

\* C5 (witness): a collection of more than 10 records has just been listed,
\* and 10 records came back.
C5_Witness ==
    /\ resp.endpoint = ListEndpoint
    /\ resp.status = 200
    /\ Len(store) > 10
    /\ DistinctTimes(store)
    /\ Len(resp.body.bookings.v) = 10

HasEnvelope(body) ==
    /\ "success" \in DOMAIN body
    /\ body.success.t = "boolean"
    /\ "message" \in DOMAIN body
    /\ body.message.t = "string"

\* C6: every response of every endpoint is a JSON body with a boolean
\* 'success' and a string 'message'.
C6_EveryResponseHasEnvelope ==
    resp # NoResponse => HasEnvelope(resp.body)

\* C7: outside development mode, no response that reports a failure carries
\* the underlying error's code or message.
C7_NoErrorDetailOutsideDevelopment ==
    (nodeEnv # "development" /\ resp.cause # NoError)
    => (/\ "code" \notin DOMAIN resp.body
        /\ "error" \in DOMAIN resp.body => resp.body.error.v # resp.cause.message)

\* C8: a create request in which one of name, email, phone, carModel is
\* empty once trimmed is answered 400, and no stored record has an empty
\* name, email, phone or carModel.
C8_BlankFieldRejected ==
    /\ (IsCreateResponse(resp) /\ resp.rsAtStart = Connected /\ SomeFieldBlank(resp.reqBody))
       => resp.status = 400
    /\ \A i \in 1..Len(store) :
          /\ store[i].name # <<>>
          /\ store[i].email # <<>>
          /\ store[i].phone # <<>>
          /\ store[i].carModel # <<>>

\* C9: a create request makes at most two insert attempts.  It goes to its
\* second attempt only from its first, only when that one failed with
\* DuplicateKey, and with an identifier generated anew at that moment; an
\* attempt that fails otherwise ends the request, and so does the second
\* attempt whatever its result: on DuplicateKey with a 409 and no record.
C9_SingleRetryOnDuplicateKey ==
    [][ \A cr \in creates :
          cr \notin creates'
          => \/ /\ cr.pc = "saving"
                /\ cr.attempts = <<>>
                /\ store' = store
                /\ \E nx \in creates' \ creates :
                      /\ nx.pc = "retrying"
                      /\ nx.attempts = <<[bookingId |-> cr.doc.bookingId,
                                          error |-> DuplicateKeyError]>>
                      /\ ViolatesUnique(store, cr.doc)
                      /\ \E r \in RandomBelow(RandRetry) :
                            nx.doc.bookingId = <<"C", "R">> \o Decimal(now) \o Decimal(r)
             \/ /\ IsCreateResponse(resp')
                /\ Len(resp'.attempts) = Len(cr.attempts) + 1
                /\ Len(resp'.attempts) <= 2
                /\ Len(resp'.attempts) = 2 <=> cr.pc = "retrying"
                /\ Last(resp'.attempts).error # NoError
                   => (/\ store' = store
                       /\ Last(resp'.attempts).error = DuplicateKeyError
                          => (cr.pc = "retrying" /\ resp'.status = 409)) ]_vars

\* C9 (witness): a request whose two attempts both failed with DuplicateKey
\* has just been answered 409.
C9_Witness ==
    /\ IsCreateResponse(resp)
    /\ resp.status = 409
    /\ Len(resp.attempts) = 2
    /\ resp.attempts[1].error = DuplicateKeyError
    /\ resp.attempts[2].error = DuplicateKeyError

\* A step in which a handler issues a store operation: a save() (of a new
\* request or of a retry), a find() or a countDocuments().
IssuesStoreOperation ==
    \/ creates' \ creates # {}
    \/ listReq.pc = "idle" /\ listReq'.pc = "finding"
    \/ statusReq.pc = "idle" /\ statusReq'.pc = "counting"

\* C10: a handler issues a store operation only when the connection state
\* is 'connected'.
C10_StoreOperationOnlyWhenConnected ==
    [][ IssuesStoreOperation => readyState = Connected ]_vars

====
